---- MODULE Spec2Model ----
(***************************************************************************)
(* A model of llava/llava_pretrain_data.py: the LLaVA pre-training caption *)
(* dataset (construction and __getitem__), the two text preprocessing      *)
(* functions, and collate_fn.                                              *)
(*                                                                         *)
(* Python strings are sequences of one-character strings, token id lists   *)
(* and tensor rows are sequences of integers, a 2-D tensor is a sequence   *)
(* of rows.  Python's 0-based positions appear 1-based here.               *)
(***************************************************************************)
EXTENDS Integers, Sequences, FiniteSets, TLC

VARIABLES
    data,            \* the parsed JSON array read by __init__
    list_data_dict,  \* self.list_data_dict
    pc,              \* where the modelled call stands
    tokenizer,       \* the tokenizer object handed to the dataset / collate_fn
    item,            \* what the last __getitem__ call produced (status "none" before)
    fetches,         \* number of __getitem__ calls made so far
    sentence,        \* one turn, {'value': text}, handed to preprocess_multimodal
    pm_in,           \* the text that turn held before preprocess_multimodal
    instances,       \* the list of examples handed to collate_fn
    max_length,      \* collate_fn's max_length argument
    batch            \* what collate_fn returned (status "none" before)

vars == <<data, list_data_dict, pc, tokenizer, item, fetches,
          sentence, pm_in, instances, max_length, batch>>

None == "None"

-----------------------------------------------------------------------------
(* Bounds of the model *)

MaxMarkers == 3      \* markers inserted into a turn text (SpecText)
MaxBase == 1         \* length of the text the markers are inserted into
MaxRecords == 2      \* records in the JSON array (SpecDataset)
MaxFetches == 2      \* __getitem__ calls followed (SpecDataset)
MaxBody == 2         \* tokens of an example before its end-of-sequence id
MaxBatch == 2        \* examples in a batch
MaxTarget == 4       \* largest max_length tried
MaxModelLen == 4     \* largest tokenizer.model_max_length tried

-----------------------------------------------------------------------------
(* Module constants, lines 13-14 *)

DEFAULT_IMAGE_TOKEN == <<"<", "i", "m", "a", "g", "e", ">">>
IGNORE_INDEX == -100

-----------------------------------------------------------------------------
(* Python str operations used by the preprocessing functions *)

Min(a, b) == IF a < b THEN a ELSE b
Max(a, b) == IF a > b THEN a ELSE b

\* s[i:i+len(m)] == m, at the 1-based position i
MatchesAt(s, i, m) ==
    /\ i + Len(m) - 1 <= Len(s)
    /\ \A k \in 1..Len(m) : s[i + k - 1] = m[k]

\* m in s
StrContains(s, m) == \E i \in 1..(Len(s) + 1) : MatchesAt(s, i, m)

\* s.replace(m, ''): one left-to-right scan that drops each non-overlapping
\* occurrence of m; what the scan has already passed is never looked at again
RECURSIVE ReplaceFrom(_, _, _)
ReplaceFrom(s, i, m) ==
    IF i > Len(s) THEN << >>
    ELSE IF MatchesAt(s, i, m) THEN ReplaceFrom(s, i + Len(m), m)
    ELSE <<s[i]>> \o ReplaceFrom(s, i + 1, m)

StrRemove(s, m) == ReplaceFrom(s, 1, m)

Whitespace == {" ", "\n", "\t"}

\* s.strip()
StrStrip(s) ==
    LET keep == {i \in 1..Len(s) : s[i] \notin Whitespace}
    IN IF keep = {} THEN << >>
       ELSE LET lo == CHOOSE i \in keep : \A j \in keep : i <= j
                hi == CHOOSE i \in keep : \A j \in keep : i >= j
            IN SubSeq(s, lo, hi)

-----------------------------------------------------------------------------
(* preprocess_multimodal, lines 17-29 *)

\* the body of the inner loop, lines 20-27, for one sentence['value']
MultimodalValue(v) ==
    IF StrContains(v, DEFAULT_IMAGE_TOKEN)
    THEN LET v1 == StrStrip(StrRemove(v, DEFAULT_IMAGE_TOKEN))      \* line 21
             v2 == DEFAULT_IMAGE_TOKEN \o <<"\n">> \o v1            \* line 22
             v3 == StrStrip(v2)                                     \* line 23
             v4 == StrRemove(v3, DEFAULT_IMAGE_TOKEN)               \* line 26
         IN StrStrip(v4)                                            \* line 27
    ELSE v

\* one source (a list of sentences), lines 19-27
MultimodalSource(source) ==
    [k \in 1..Len(source) |-> [source[k] EXCEPT !.value = MultimodalValue(@)]]

\* preprocess_multimodal(sources)
preprocess_multimodal(sources) ==
    [s \in 1..Len(sources) |-> MultimodalSource(sources[s])]

-----------------------------------------------------------------------------
(* The tokenizer contract: pad_token_id, eos_token_id, model_max_length and *)
(* a callable from a string to an id sequence.  The callable is modelled as *)
(* a character-level vocabulary; a tokenizer whose add_special flag is set  *)
(* prepends its begin-of-sequence id to every text, the empty one included. *)

Alphabet == <<"a", " ", "\n", "\t", "<", "i", "m", "g", "e", ">">>

CharId(c) == CHOOSE k \in 1..Len(Alphabet) : Alphabet[k] = c

\* tokenizer(text)["input_ids"], lines 45 and 50
Tokenize(tok, text) ==
    (IF tok.add_special THEN <<tok.bos_token_id>> ELSE << >>)
        \o [k \in 1..Len(text) |-> CharId(text[k])]

\* conversation_lib.conv_templates["plain"].sep, used at line 40
PlainSep == <<"\n">>

-----------------------------------------------------------------------------
(* preprocess_plain, lines 32-54 *)

\* line 39 left out: the first turn keeps its text
KeepFirstTurn(source) == source

\* line 39: source[0]['value'] = ""
BlankFirstTurn(source) == [source EXCEPT ![1].value = << >>]

\* line 40: the concatenated prompt of one (already blanked) source
Conversation(source) == source[1].value \o source[2].value \o PlainSep

\* line 45: tokenizer(prompt)["input_ids"] + [tokenizer.eos_token_id]
InputIds(tok, prompt) == Tokenize(tok, prompt) \o <<tok.eos_token_id>>

\* the targets are taken from the ids without their last element
TargetsDropLast(ids) == SubSeq(ids, 1, Len(ids) - 1)

\* line 46: copy.deepcopy of one row of input_ids
Targets(ids) == ids

\* lines 51-52: target is a Python list, so target[:n] = IGNORE_INDEX (an int
\* assigned to a list slice) raises TypeError whenever it is executed
MaskPrefix(target, n) ==
    IF n > 0 THEN [raised |-> "TypeError", value |-> target]
    ELSE [raised |-> None, value |-> target]

\* preprocess_plain(sources, tokenizer); besides the returned dict the record
\* keeps the locals conversations and tokenized_len (of each source)
preprocess_plain(sources, tok) ==
    LET blanked == [s \in 1..Len(sources) |-> BlankFirstTurn(sources[s])]
        conversations == [s \in 1..Len(sources) |-> Conversation(blanked[s])]
        input_ids == [s \in 1..Len(sources) |-> InputIds(tok, conversations[s])]
        lens == [s \in 1..Len(sources) |-> Len(Tokenize(tok, blanked[s][1].value))]
        targets == [s \in 1..Len(sources) |-> MaskPrefix(Targets(input_ids[s]), lens[s])]
    IN IF \E s \in 1..Len(sources) : targets[s].raised # None
       THEN [status |-> "TypeError", sources |-> blanked,
             conversations |-> conversations, tokenized_len |-> lens]
       ELSE [status |-> "ok", sources |-> blanked,
             conversations |-> conversations, tokenized_len |-> lens,
             input_ids |-> input_ids,
             labels |-> [s \in 1..Len(sources) |-> targets[s].value]]

-----------------------------------------------------------------------------
(* LLaVAPretrainCaptioningDataset, lines 78-147 *)

\* lines 93-96: the records of data that have an 'image' key, in order
RECURSIVE RetainImageRecords(_)
RetainImageRecords(d) ==
    IF d = << >> THEN << >>
    ELSE IF "image" \in DOMAIN Head(d)
         THEN <<Head(d)>> \o RetainImageRecords(Tail(d))
         ELSE RetainImageRecords(Tail(d))

\* every record is appended, the test of line 95 left out
RetainAllRecords(d) == d

\* lines 93-96 as __init__ runs them
LoadRecords(d) == RetainImageRecords(d)

\* the side of the processor's square crop (checkpoint named at line 98)
CropSize == 336

\* lines 118-131: the file at image_root/image_file, opened, resized to the
\* crop size and normalised by the image processor; px stands for its pixels
LoadImage(image_file) ==
    [is_none |-> FALSE, shape |-> <<3, CropSize, CropSize>>, px |-> image_file]

\* line 133 without copy.deepcopy: the turns preprocess_multimodal and
\* preprocess_plain rewrite are the stored record's own
StoredAfterFetchNoCopy(ldd, i) ==
    [ldd EXCEPT ![i].conversations = BlankFirstTurn(MultimodalSource(@))]

\* line 133: both functions work on copy.deepcopy of the conversations, so
\* the stored records are what they were
StoredAfterFetch(ldd, i) == ldd

\* __getitem__(i) for an int i, lines 109-147: the returned dict, or the
\* exception that left it
GetItemResult(ldd, i, tok) ==
    LET image == LoadImage(ldd[i].image)                           \* 116-131
        sources == preprocess_multimodal(<<ldd[i].conversations>>) \* 133
        data_dict == preprocess_plain(sources, tok)                \* 134
    IN IF data_dict.status = "ok"
       THEN [status |-> "ok", index |-> i,
             input_ids |-> data_dict.input_ids[1],                 \* 137
             labels |-> data_dict.labels[1],                       \* 138
             image |-> image,                                      \* 141-142
             conversation |-> data_dict.conversations[1],
             tokenized_len |-> data_dict.tokenized_len[1]]
       ELSE [status |-> data_dict.status, index |-> i,
             input_ids |-> << >>, labels |-> << >>, image |-> image,
             conversation |-> data_dict.conversations[1],
             tokenized_len |-> data_dict.tokenized_len[1]]

NoItem ==
    [status |-> "none", index |-> 0, input_ids |-> << >>, labels |-> << >>,
     image |-> LoadImage(""), conversation |-> << >>, tokenized_len |-> 0]

-----------------------------------------------------------------------------
(* collate_fn, lines 150-191 *)

\* number of columns of a 2-D tensor with at least one row: shape[-1]
Cols(t) == Len(t[1])

\* the length of the longest sequence of a non-empty list
MaxLenOf(seqs) ==
    CHOOSE n \in {Len(seqs[i]) : i \in 1..Len(seqs)} :
        \A i \in 1..Len(seqs) : Len(seqs[i]) <= n

\* the padding is put in front of the row
PadRowLeft(row, width, v) == [k \in 1..(width - Len(row)) |-> v] \o row

\* one row of pad_sequence: the row, then the padding value up to width
PadRow(row, width, v) == row \o [k \in 1..(width - Len(row)) |-> v]

\* torch.nn.utils.rnn.pad_sequence(seqs, batch_first=True, padding_value=v)
pad_sequence(seqs, v) ==
    [i \in 1..Len(seqs) |-> PadRow(seqs[i], MaxLenOf(seqs), v)]

\* torch.cat([t, torch.ones(size=(rows, offset)) * v], dim=1), lines 167-168
\* and 171-172
CatPadTube(t, offset, v) ==
    [i \in 1..Len(t) |-> t[i] \o [k \in 1..offset |-> v]]

\* t[:, :n] for n >= 0, lines 176-177
TruncateCols(t, n) ==
    [i \in 1..Len(t) |-> SubSeq(t[i], 1, Min(n, Len(t[i])))]

\* the cut is made at the tokenizer's limit alone
MinMaxLenModelOnly(T, tok) == tok.model_max_length

\* line 174: min(max_length, tokenizer.model_max_length)
MinMaxLen(T, tok) == Min(T, tok.model_max_length)

\* the mask is taken against the end-of-sequence id
AttentionMaskNeEos(ids, tok) ==
    [i \in 1..Len(ids) |-> [j \in 1..Len(ids[i]) |-> ids[i][j] # tok.eos_token_id]]

\* line 181: input_ids.ne(tokenizer.pad_token_id)
AttentionMask(ids, tok) ==
    [i \in 1..Len(ids) |-> [j \in 1..Len(ids[i]) |-> ids[i][j] # tok.pad_token_id]]

\* an image value that is Python's None
NoneImage == [is_none |-> TRUE, shape |-> << >>, px |-> ""]

\* line 186 with any() in place of all()
SameShapeAny(images) ==
    \E k \in 1..Len(images) :
        (~images[k].is_none) /\ images[k].shape = images[1].shape

\* line 186: all(x is not None and x.shape == images[0].shape for x in images)
SameShapeAll(images) ==
    \A k \in 1..Len(images) :
        (~images[k].is_none) /\ images[k].shape = images[1].shape

\* lines 184-189: batch['images'].  A stacked tensor is its shape and its
\* slices along the leading dimension; a list is its items
BatchImages(insts) ==
    IF "image" \in DOMAIN insts[1]
    THEN LET images == [k \in 1..Len(insts) |-> insts[k].image]     \* 185
         IN IF SameShapeAll(images)
            THEN [kind |-> "tensor",                                \* 187
                  shape |-> <<Len(images)>> \o images[1].shape,
                  items |-> [k \in 1..Len(images) |-> images[k].px]]
            ELSE [kind |-> "list", shape |-> << >>, items |-> images] \* 189
    ELSE [kind |-> "absent", shape |-> << >>, items |-> << >>]

\* collate_fn(instances, tokenizer, max_length): the returned batch
collate_fn(insts, tok, T) ==
    LET ids0 == pad_sequence([k \in 1..Len(insts) |-> insts[k].input_ids],
                             tok.pad_token_id)                      \* 157-160
        lab0 == pad_sequence([k \in 1..Len(insts) |-> insts[k].labels],
                             IGNORE_INDEX)                          \* 161-163
        short == Cols(ids0) < T                                     \* 165
        ids1 == IF short THEN CatPadTube(ids0, T - Cols(ids0), tok.pad_token_id)
                ELSE ids0                                           \* 166-168
        lab1 == IF short THEN CatPadTube(lab0, T - Cols(lab0), IGNORE_INDEX)
                ELSE lab0                                           \* 170-172
        min_max_len == MinMaxLen(T, tok)                            \* 174
        ids2 == TruncateCols(ids1, min_max_len)                     \* 176
        lab2 == TruncateCols(lab1, min_max_len)                     \* 177
    IN [status |-> "ok",
        input_ids |-> ids2,
        labels |-> lab2,
        attention_mask |-> AttentionMask(ids2, tok),                \* 181
        images |-> BatchImages(insts)]                              \* 184-189

NoBatch ==
    [status |-> "none", input_ids |-> << >>, labels |-> << >>,
     attention_mask |-> << >>,
     images |-> [kind |-> "absent", shape |-> << >>, items |-> << >>]]

-----------------------------------------------------------------------------
(* Inputs *)

\* all sequences over S of length lo..hi
SeqsOf(S, lo, hi) == UNION {[1..n -> S] : n \in lo..hi}

\* text with m put in after its first p characters
InsertAt(text, p, m) == SubSeq(text, 1, p) \o m \o SubSeq(text, p + 1, Len(text))

\* the texts got from a short text by putting in up to n markers, each at any
\* place, inside an earlier marker included
RECURSIVE WithMarkers(_)
WithMarkers(n) ==
    IF n = 0 THEN SeqsOf({"a", " "}, 0, MaxBase)
    ELSE LET S == WithMarkers(n - 1)
         IN S \cup UNION {{InsertAt(t, p, DEFAULT_IMAGE_TOKEN) : p \in 0..Len(t)} : t \in S}

TurnTexts == WithMarkers(MaxMarkers)

\* the turns of the records of the JSON file
FirstTurnTexts == {DEFAULT_IMAGE_TOKEN \o <<"\n", "a">>, <<"a">>}
SecondTurnTexts == {<<"a">>, <<"a", " ", "a">>, <<"a", " ">> \o DEFAULT_IMAGE_TOKEN}

Conversations ==
    {<<[value |-> a], [value |-> b]>> : a \in FirstTurnTexts, b \in SecondTurnTexts}

DataRecords ==
    {[image |-> "p.jpg", conversations |-> c] : c \in Conversations}
        \cup {[conversations |-> c] : c \in Conversations}

\* a tokenizer that adds no special tokens (as phi-1_5's) and one that
\* prepends a begin-of-sequence id to every text (as LLaMA's)
DatasetTokenizers ==
    [add_special : BOOLEAN, bos_token_id : {11}, eos_token_id : {0},
     pad_token_id : {12}, model_max_length : {MaxModelLen}]

\* tokenizers for collate_fn: the pad id is a token of its own, or one that
\* texts also hold (pad = eos, or the id of a word)
CollateTokenizers ==
    [add_special : {FALSE}, bos_token_id : {11}, eos_token_id : {0},
     pad_token_id : {0, 2}, model_max_length : 1..MaxModelLen]

\* a tokenized example as __getitem__ returns it: ids ending in the
\* end-of-sequence id, labels a copy of them, and an image
Example(body, tok, image) ==
    [input_ids |-> body \o <<tok.eos_token_id>>,
     labels |-> body \o <<tok.eos_token_id>>,
     image |-> image]

OtherShapeImage == [is_none |-> FALSE, shape |-> <<3, 224, 224>>, px |-> "r.jpg"]

ImageChoices ==
    {LoadImage("p.jpg"), LoadImage("q.jpg"), OtherShapeImage, NoneImage}

IdleTokenizer ==
    [add_special |-> FALSE, bos_token_id |-> 11, eos_token_id |-> 0,
     pad_token_id |-> 12, model_max_length |-> MaxModelLen]

-----------------------------------------------------------------------------
(* preprocess_multimodal applied to one turn *)

InitText ==
    /\ pc = "pm_call"
    /\ pm_in \in TurnTexts
    /\ sentence = [value |-> pm_in]
    /\ data = << >> /\ list_data_dict = << >> /\ tokenizer = IdleTokenizer
    /\ item = NoItem /\ fetches = 0
    /\ instances = << >> /\ max_length = 0 /\ batch = NoBatch

PreprocessMultimodal ==
    /\ pc = "pm_call"
    /\ sentence' = preprocess_multimodal(<< <<sentence>> >>)[1][1]
    /\ pc' = "pm_return"
    /\ UNCHANGED <<data, list_data_dict, tokenizer, item, fetches, pm_in,
                   instances, max_length, batch>>

NextText == PreprocessMultimodal

SpecText == InitText /\ [][NextText]_vars

-----------------------------------------------------------------------------
(* The dataset: __init__, then __getitem__ calls *)

InitDataset ==
    /\ pc = "load"
    /\ data \in SeqsOf(DataRecords, 0, MaxRecords)
    /\ list_data_dict = << >>
    /\ tokenizer \in DatasetTokenizers
    /\ item = NoItem /\ fetches = 0
    /\ sentence = [value |-> << >>] /\ pm_in = << >>
    /\ instances = << >> /\ max_length = 0 /\ batch = NoBatch

\* __init__, lines 79-104
Construct ==
    /\ pc = "load"
    /\ list_data_dict' = LoadRecords(data)
    /\ pc' = "ready"
    /\ UNCHANGED <<data, tokenizer, item, fetches, sentence, pm_in,
                   instances, max_length, batch>>

\* __getitem__(i) with an int index in range
GetItem(i) ==
    /\ pc = "ready"
    /\ fetches < MaxFetches
    /\ i \in 1..Len(list_data_dict)
    /\ item' = GetItemResult(list_data_dict, i, tokenizer)
    /\ list_data_dict' = StoredAfterFetch(list_data_dict, i)
    /\ fetches' = fetches + 1
    /\ UNCHANGED <<data, pc, tokenizer, sentence, pm_in,
                   instances, max_length, batch>>

NextDataset == Construct \/ \E i \in 1..MaxRecords : GetItem(i)

SpecDataset == InitDataset /\ [][NextDataset]_vars

-----------------------------------------------------------------------------
(* collate_fn applied to a batch of examples *)

InitCollate ==
    /\ pc = "collate_call"
    /\ tokenizer \in CollateTokenizers
    /\ max_length \in 1..MaxTarget
    /\ \E bodies \in SeqsOf(SeqsOf({1, 2}, 0, MaxBody), 1, MaxBatch) :
           instances = [k \in 1..Len(bodies) |->
                           Example(bodies[k], tokenizer, LoadImage("p.jpg"))]
    /\ batch = NoBatch
    /\ data = << >> /\ list_data_dict = << >>
    /\ item = NoItem /\ fetches = 0
    /\ sentence = [value |-> << >>] /\ pm_in = << >>

\* the batches that differ in their images
InitImages ==
    /\ pc = "collate_call"
    /\ tokenizer \in CollateTokenizers
    /\ max_length \in 1..MaxTarget
    /\ \E images \in SeqsOf(ImageChoices, 1, MaxBatch) :
           instances = [k \in 1..Len(images) |->
                           Example(<<1>>, tokenizer, images[k])]
    /\ batch = NoBatch
    /\ data = << >> /\ list_data_dict = << >>
    /\ item = NoItem /\ fetches = 0
    /\ sentence = [value |-> << >>] /\ pm_in = << >>

Collate ==
    /\ pc = "collate_call"
    /\ batch' = collate_fn(instances, tokenizer, max_length)
    /\ pc' = "collate_return"
    /\ UNCHANGED <<data, list_data_dict, tokenizer, item, fetches, sentence,
                   pm_in, instances, max_length>>

NextCollate == Collate

SpecCollate == InitCollate /\ [][NextCollate]_vars

SpecImages == InitImages /\ [][NextCollate]_vars

-----------------------------------------------------------------------------
(* All of it *)

Init == InitText \/ InitDataset \/ InitCollate \/ InitImages

Next == NextText \/ NextDataset \/ NextCollate

Spec == Init /\ [][Next]_vars

-----------------------------------------------------------------------------
(* Properties of collate_fn *)

Returned == pc = "collate_return"

\* M: the length of the longest raw input_ids of the batch
RawMax == MaxLenOf([k \in 1..Len(instances) |-> instances[k].input_ids])

RawLen(i) == Len(instances[i].input_ids)

AllRowsHave(t, n) ==
    /\ Len(t) = Len(instances)
    /\ \A i \in 1..Len(t) : Len(t[i]) = n

\* C1 as stated: the returned input_ids and labels have
\* min(max(M, T), tokenizer.model_max_length) columns.
C1_LengthIsMinOfMaxAndModel ==
    Returned =>
        LET n == Min(Max(RawMax, max_length), tokenizer.model_max_length)
        IN AllRowsHave(batch.input_ids, n) /\ AllRowsHave(batch.labels, n)

\* C1 amended: the returned input_ids and labels have
\* min(T, tokenizer.model_max_length) columns, whatever M is.
C1_LengthIsMinOfTargetAndModel ==
    Returned =>
        LET n == Min(max_length, tokenizer.model_max_length)
        IN AllRowsHave(batch.input_ids, n) /\ AllRowsHave(batch.labels, n)

\* a batch whose longest example exceeds the target, under a tokenizer whose
\* limit does not cut it: it comes back T columns wide
C1_Witness ==
    /\ Returned
    /\ RawMax > max_length
    /\ tokenizer.model_max_length >= RawMax
    /\ Len(instances) >= 2
    /\ Cols(batch.input_ids) = max_length

\* C2: attention_mask has the shape of the final input_ids and is true
\* exactly where the final input_ids differs from tokenizer.pad_token_id.
C2_MaskIsNotEqualPad ==
    Returned =>
        /\ Len(batch.attention_mask) = Len(batch.input_ids)
        /\ \A i \in 1..Len(batch.input_ids) :
              /\ Len(batch.attention_mask[i]) = Len(batch.input_ids[i])
              /\ \A j \in 1..Len(batch.input_ids[i]) :
                    batch.attention_mask[i][j]
                        <=> (batch.input_ids[i][j] # tokenizer.pad_token_id)

\* a returned batch of two rows with a masked and an unmasked position, whose
\* pad id is not the end-of-sequence id
C2_Witness ==
    /\ Returned
    /\ Len(instances) >= 2
    /\ tokenizer.pad_token_id # tokenizer.eos_token_id
    /\ \E i \in 1..Len(batch.input_ids) :
          \E j, k \in 1..Len(batch.input_ids[i]) :
              batch.attention_mask[i][j] /\ ~batch.attention_mask[i][k]

\* C3: attention_mask is true exactly at the positions that hold a token of
\* the example (j within its raw length) and false at every padded position,
\* also when a real token has the pad id.
C3_MaskIsNotPadding ==
    Returned =>
        \A i \in 1..Len(batch.input_ids) :
            \A j \in 1..Len(batch.input_ids[i]) :
                batch.attention_mask[i][j] <=> (j <= RawLen(i))

\* C10: padding is on the right only: within an example's raw length the
\* final input_ids and labels hold the example's own elements, beyond it the
\* pad id and the ignore sentinel; both tensors have one shape.
C10_PaddedOnTheRight ==
    Returned =>
        /\ Len(batch.input_ids) = Len(instances)
        /\ Len(batch.labels) = Len(instances)
        /\ \A i \in 1..Len(instances) :
              /\ Len(batch.labels[i]) = Len(batch.input_ids[i])
              /\ \A j \in 1..Len(batch.input_ids[i]) :
                    IF j <= RawLen(i)
                    THEN /\ batch.input_ids[i][j] = instances[i].input_ids[j]
                         /\ batch.labels[i][j] = instances[i].labels[j]
                    ELSE /\ batch.input_ids[i][j] = tokenizer.pad_token_id
                         /\ batch.labels[i][j] = IGNORE_INDEX

\* a batch of examples of different lengths, shorter than the target, that
\* comes back with padding from both padding steps
C10_Witness ==
    /\ Returned
    /\ \E i, k \in 1..Len(instances) : RawLen(i) < RawLen(k)
    /\ RawMax < max_length
    /\ Cols(batch.input_ids) = max_length
    /\ \E i \in 1..Len(instances) :
          /\ batch.labels[i][RawLen(i)] = tokenizer.eos_token_id
          /\ batch.labels[i][Cols(batch.labels)] = IGNORE_INDEX

\* C8: when the first instance has an image, batch['images'] is one stacked
\* tensor with leading dimension N whose k-th slice is instance k's image if
\* all N images are tensors of one shape, and else the list of the N images
\* in instance order.
C8_ImagesStackedOrListed ==
    (Returned /\ "image" \in DOMAIN instances[1]) =>
        LET N == Len(instances)
            oneShape == \A k, l \in 1..N :
                            /\ ~instances[k].image.is_none
                            /\ instances[k].image.shape = instances[l].image.shape
        IN IF oneShape
           THEN /\ batch.images.kind = "tensor"
                /\ batch.images.shape = <<N>> \o instances[1].image.shape
                /\ Len(batch.images.items) = N
                /\ \A k \in 1..N : batch.images.items[k] = instances[k].image.px
           ELSE /\ batch.images.kind = "list"
                /\ Len(batch.images.items) = N
                /\ \A k \in 1..N : batch.images.items[k] = instances[k].image

\* two different images of one shape, stacked
C8_Witness ==
    /\ Returned
    /\ Len(instances) >= 2
    /\ batch.images.kind = "tensor"
    /\ batch.images.items[1] # batch.images.items[2]

-----------------------------------------------------------------------------
(* Properties of the dataset and of preprocess_plain *)

\* the positions of the JSON array whose record has an 'image' key
ImagePositions == {j \in 1..Len(data) : "image" \in DOMAIN data[j]}

\* the k-th smallest of them
KthImagePosition(k) ==
    CHOOSE j \in ImagePositions :
        Cardinality({m \in ImagePositions : m <= j}) = k

\* C9: after construction list_data_dict holds no record without an 'image'
\* key and every record with one exactly once, in the order of the JSON
\* array; __len__ is the number of records with the key.
C9_OnlyImageRecordsRetained ==
    pc = "ready" =>
        /\ Len(list_data_dict) = Cardinality(ImagePositions)
        /\ \A k \in 1..Len(list_data_dict) :
              /\ "image" \in DOMAIN list_data_dict[k]
              /\ list_data_dict[k] = data[KthImagePosition(k)]

\* a JSON array whose first record has no image and whose second has one
C9_Witness ==
    /\ pc = "ready"
    /\ Len(data) >= 2
    /\ "image" \notin DOMAIN data[1]
    /\ "image" \in DOMAIN data[2]
    /\ Len(list_data_dict) >= 1

\* C7: a fetch leaves the stored records (every turn's text and the image
\* path) as they were at construction, and what it returns for index i is
\* what a fetch of i from the freshly constructed dataset returns.
C7_FetchLeavesRecordsUnchanged ==
    [][pc = "ready" =>
          /\ list_data_dict' = list_data_dict
          /\ item'.status # "none" =>
                item' = GetItemResult(RetainImageRecords(data), item'.index, tokenizer)]_vars

\* two fetches done, the last one of a record whose stored first turn still
\* holds its text with the marker
C7_Witness ==
    /\ pc = "ready"
    /\ fetches >= 2
    /\ item.status = "ok"
    /\ StrContains(list_data_dict[item.index].conversations[1].value, DEFAULT_IMAGE_TOKEN)

\* C4: the labels preprocess_plain returns are as long as the input_ids,
\* which are the tokens of the concatenated text and one end-of-sequence id,
\* nothing more.
C4_LabelsAsLongAsInputIds ==
    item.status = "ok" =>
        /\ Len(item.labels) = Len(item.input_ids)
        /\ Len(item.input_ids) = Len(Tokenize(tokenizer, item.conversation)) + 1

\* an example of several tokens was returned
C4_Witness ==
    /\ item.status = "ok"
    /\ Len(item.input_ids) > 3
    /\ item.input_ids[Len(item.input_ids)] = tokenizer.eos_token_id

AttemptedFetch == item.status # "none"

-----------------------------------------------------------------------------
(* Property of preprocess_multimodal *)

\* C6: after preprocess_multimodal the turn's text does not contain the
\* marker "<image>"; if it did before, the text now has no white space at
\* either end; a text without the marker is left as it was.
C6_MarkerRemoved ==
    pc = "pm_return" =>
        /\ ~StrContains(sentence.value, DEFAULT_IMAGE_TOKEN)
        /\ StrContains(pm_in, DEFAULT_IMAGE_TOKEN) =>
              sentence.value = StrStrip(sentence.value)
        /\ (~StrContains(pm_in, DEFAULT_IMAGE_TOKEN)) => sentence.value = pm_in

====
